---- MODULE Spec2Model ----
(***************************************************************************)
(* Model of the gitlab-scraper "scrape" subcommand (src/cmd/scrape.go):    *)
(* one batch run that reads the configuration, resolves the access token   *)
(* and the Push Gateway URL, queries the platform once per enabled         *)
(* collector of every group, registers one gauge per result and pushes    *)
(* the batch.  The platform, the gateway, the config file and the         *)
(* environment are the run's inputs; their answers are nondeterministic.   *)
(***************************************************************************)
EXTENDS Integers, Sequences, FiniteSets, TLC

VARIABLES
    flagAccessToken,     \* package variable accessToken, set by --token
    flagPushGatewayURL,  \* package variable pushGatewayURL, set by --pushgateway
    envAccessToken,      \* environment variable GITLAB_ACCESS_TOKEN
    envPushGatewayURL,   \* environment variable PUSHGATEWAY_URL
    fileAccessToken,     \* key access_token of the config file viper has read
    filePushGatewayURL,  \* key push_gateway_url of the config file
    accessToken,         \* Run's local accessToken (the value the run uses)
    pushGatewayURL,      \* Run's local pushGatewayURL
    config,              \* the Config structure viper.Unmarshal fills
    pc,                  \* the statement the run is at
    gi,                  \* index of the group the loop of scrape is at
    calls,               \* platform-API requests issued so far, with their responses
    batch,               \* gauges registered with the pusher (pusher.Collector)
    pushes,              \* batches handed to pusher.Push, one entry per invocation
    gateway,             \* samples the gateway has accepted
    exited,              \* the process has terminated
    exitCode,            \* its exit status
    diagnostic,          \* the failure message printed, "" when none
    labelSets,           \* argument of a direct mergeLabels call
    merged               \* result of that call

vars == <<flagAccessToken, flagPushGatewayURL, envAccessToken, envPushGatewayURL,
          fileAccessToken, filePushGatewayURL, accessToken, pushGatewayURL,
          config, pc, gi, calls, batch, pushes, gateway, exited, exitCode,
          diagnostic, labelSets, merged>>

cliVars == <<flagAccessToken, flagPushGatewayURL, envAccessToken, envPushGatewayURL,
             fileAccessToken, filePushGatewayURL>>

mergeVars == <<labelSets, merged>>

----------------------------------------------------------------------------
(* Bounds *)

\* groups of a configuration handed to scrape directly
MaxGroups == 2
\* groups of a configuration in a run that starts at the command line
MaxGroupsRun == 1
\* label sets handed to a direct mergeLabels call
MaxSets == 2

----------------------------------------------------------------------------
(* Data: Config, GroupConfig, ProjectCountConfig, MemberCountConfig.  A Go  *)
(* pointer is a sequence: <<>> is nil, <<v>> points at v.                   *)

Page == 1
PerPage == 1

\* total-item counts the platform may report (X-Total of the response)
Totals == {10, 25}

GroupIDs == <<"G1", "G2", "G3", "G4">>

LabelKeys == {"team", "group_id"}

\* prometheus.Labels: a map from label name to label value
LabelsOver(values) == UNION {[S -> values] : S \in SUBSET LabelKeys}

EmptyLabels == [k \in {} |-> ""]

ProjectCountConfigs == {[IncludeSubGroups |-> p] : p \in {<<>>, <<FALSE>>, <<TRUE>>}}

ProjectCountPtrs == {<<>>} \cup {<<c>> : c \in ProjectCountConfigs}

MemberCountPtrs == {<<>>, <<"MemberCountConfig{}">>}

GroupsOfLen(n) ==
    {[i \in 1..n |-> [ID |-> GroupIDs[i],
                      ProjectCount |-> s[i][1],
                      MemberCount |-> s[i][2]]] :
        s \in [1..n -> ProjectCountPtrs \X MemberCountPtrs]}

Configs(max) ==
    {[DefaultLabels |-> d, Groups |-> g] :
        d \in LabelsOver({"dflt"}),
        g \in UNION {GroupsOfLen(n) : n \in 0..max}}

\* var config Config: the zero value
ZeroConfig == [DefaultLabels |-> EmptyLabels, Groups |-> <<>>]

----------------------------------------------------------------------------
(* mergeLabels *)

mapsCopy(dst, src) ==
    [k \in (DOMAIN dst) \cup (DOMAIN src) |->
        IF k \in DOMAIN src THEN src[k] ELSE dst[k]]

RECURSIVE mergeFrom(_, _, _)
mergeFrom(acc, sets, i) ==
    IF i > Len(sets) THEN acc
    ELSE mergeFrom(mapsCopy(acc, sets[i]), sets, i + 1)

\* mutant of mergeLabels: an earlier input keeps its keys
mergeLabels_FirstWins(sets) ==
    LET RECURSIVE keep(_, _)
        keep(acc, i) ==
            IF i > Len(sets) THEN acc
            ELSE keep(mapsCopy(sets[i], acc), i + 1)
    IN keep(EmptyLabels, 1)

mergeLabels(sets) == mergeFrom(EmptyLabels, sets, 1)

\* prometheus.Labels{"group_id": group.ID}
GroupLabels(group) == [k \in {"group_id"} |-> group.ID]

----------------------------------------------------------------------------
(* viper and process exit *)

\* viper.GetString(key) after viper.BindEnv(key, envVar): no pflag is bound to
\* the key, so the lookup is the non-empty environment variable, then the
\* key of the config file read by ReadInConfig, then "".
viperGetString(env, file) == IF env # "" THEN env ELSE file

\* fmt.Print*(msg); os.Exit(1)
Exit1(msg) ==
    /\ exited' = TRUE
    /\ exitCode' = 1
    /\ diagnostic' = msg
    /\ pc' = "exited"

\* the statement scrape is at when its loop reaches index i
LoopAt(i) == IF i > Len(config.Groups) THEN "Push" ELSE "ProjectCount"

----------------------------------------------------------------------------
(* scrapeCmd.Run *)

ReadInConfig ==
    /\ pc = "ReadInConfig"
    /\ \E err \in BOOLEAN :
        IF err
        THEN /\ Exit1("Failed to read config file")
             /\ UNCHANGED <<accessToken, pushGatewayURL, config, gi, calls, batch,
                            pushes, gateway>>
        ELSE /\ pc' = "getAccessToken"
             /\ UNCHANGED <<accessToken, pushGatewayURL, config, gi, calls, batch,
                            pushes, gateway, exited, exitCode, diagnostic>>
    /\ UNCHANGED <<cliVars, mergeVars>>

\* mutant of getAccessToken: the message is printed but the run goes on
getAccessToken_NoExit ==
    /\ pc = "getAccessToken"
    /\ LET value == viperGetString(envAccessToken, fileAccessToken) IN
        /\ accessToken' = value
        /\ pc' = "getPushGatewayURL"
        /\ diagnostic' = IF value = "" THEN "Please provide an access token" ELSE diagnostic
        /\ UNCHANGED <<exited, exitCode>>
    /\ UNCHANGED <<pushGatewayURL, config, gi, calls, batch, pushes, gateway,
                   cliVars, mergeVars>>

\* accessToken := getRequiredValue("access_token", "GITLAB_ACCESS_TOKEN", ...)
getAccessToken ==
    /\ pc = "getAccessToken"
    /\ LET value == viperGetString(envAccessToken, fileAccessToken) IN
        IF value = ""
        THEN /\ Exit1("Please provide an access token")
             /\ UNCHANGED accessToken
        ELSE /\ accessToken' = value
             /\ pc' = "getPushGatewayURL"
             /\ UNCHANGED <<exited, exitCode, diagnostic>>
    /\ UNCHANGED <<pushGatewayURL, config, gi, calls, batch, pushes, gateway,
                   cliVars, mergeVars>>

\* pushGatewayURL := getRequiredValue("push_gateway_url", "PUSHGATEWAY_URL", ...)
getPushGatewayURL ==
    /\ pc = "getPushGatewayURL"
    /\ LET value == viperGetString(envPushGatewayURL, filePushGatewayURL) IN
        IF value = ""
        THEN /\ Exit1("Please provide a Push Gateway URL")
             /\ UNCHANGED pushGatewayURL
        ELSE /\ pushGatewayURL' = value
             /\ pc' = "Unmarshal"
             /\ UNCHANGED <<exited, exitCode, diagnostic>>
    /\ UNCHANGED <<accessToken, config, gi, calls, batch, pushes, gateway,
                   cliVars, mergeVars>>

\* viper.Unmarshal(&config, ...)
Unmarshal ==
    /\ pc = "Unmarshal"
    /\ \E err \in BOOLEAN :
        IF err
        THEN /\ Exit1("Failed to unmarshal config")
             /\ UNCHANGED config
        ELSE /\ config' \in Configs(MaxGroupsRun)
             /\ pc' = "NewClient"
             /\ UNCHANGED <<exited, exitCode, diagnostic>>
    /\ UNCHANGED <<accessToken, pushGatewayURL, gi, calls, batch, pushes, gateway,
                   cliVars, mergeVars>>

----------------------------------------------------------------------------
(* scrape *)

\* gitlab.NewClient(accessToken); push.New(pushGatewayURL, "gitlab_scrape")
NewClient ==
    /\ pc = "NewClient"
    /\ \E err \in BOOLEAN :
        IF err
        THEN /\ Exit1("Failed to create client")
             /\ UNCHANGED gi
        ELSE /\ gi' = 1
             /\ pc' = LoopAt(1)
             /\ UNCHANGED <<exited, exitCode, diagnostic>>
    /\ UNCHANGED <<accessToken, pushGatewayURL, config, calls, batch, pushes,
                   gateway, cliVars, mergeVars>>

\* what a platform-API request may come back with: an error, or a response
\* whose TotalItems is the reported total
Responses ==
    {[err |-> TRUE, TotalItems |-> 0]} \cup
    {[err |-> FALSE, TotalItems |-> t] : t \in Totals}

\* mutant of includeSubGroups: the default is true
includeSubGroups_DefaultTrue(group) ==
    IF group.ProjectCount[1].IncludeSubGroups # <<>>
    THEN group.ProjectCount[1].IncludeSubGroups[1]
    ELSE TRUE

\* getProjectCount: includeSubGroups := false unless the option is set
includeSubGroups(group) ==
    IF group.ProjectCount[1].IncludeSubGroups # <<>>
    THEN group.ProjectCount[1].IncludeSubGroups[1]
    ELSE FALSE

\* git.Groups.ListGroupProjects(group.ID, &ListGroupProjectsOptions{...})
ListGroupProjects(group) ==
    [kind |-> "projects", gid |-> group.ID,
     include_subgroups |-> includeSubGroups(group),
     page |-> Page, per_page |-> PerPage, simple |-> TRUE]

\* git.Groups.ListGroupMembers(group.ID, &ListGroupMembersOptions{...})
ListGroupMembers(group) ==
    [kind |-> "members", gid |-> group.ID, page |-> Page, per_page |-> PerPage]

\* prometheus.NewGauge(GaugeOpts{Name, ConstLabels}) followed by Set(float64(v));
\* float64 of an int is exact below 2^53, far above Totals
NewGauge(name, labels, v) == [Name |-> name, ConstLabels |-> labels, Value |-> v]

\* mutant of ProjectCountGauge: the member-count name is used
ProjectCountGauge_MemberName(group, v) ==
    NewGauge("gitlab_group_members_count",
             mergeLabels(<<config.DefaultLabels, GroupLabels(group)>>), v)

ProjectCountGauge(group, v) ==
    NewGauge("gitlab_group_project_count",
             mergeLabels(<<config.DefaultLabels, GroupLabels(group)>>), v)

MemberCountGauge(group, v) ==
    NewGauge("gitlab_group_members_count",
             mergeLabels(<<config.DefaultLabels, GroupLabels(group)>>), v)

\* mutants of ScrapeProjectCount: a failed request is treated as a count of 0
\* and the run goes on; a failed request is issued again
ScrapeProjectCount_ContinueOnError ==
    /\ pc = "ProjectCount"
    /\ LET group == config.Groups[gi] IN
        /\ group.ProjectCount # <<>>
        /\ \E resp \in Responses :
            /\ calls' = Append(calls, [gi |-> gi, request |-> ListGroupProjects(group),
                                       response |-> resp])
            /\ batch' = Append(batch, ProjectCountGauge(group, resp.TotalItems))
            /\ pc' = "MemberCount"
            /\ diagnostic' = IF resp.err THEN "Failed to list projects" ELSE diagnostic
            /\ UNCHANGED <<exited, exitCode>>
    /\ UNCHANGED <<accessToken, pushGatewayURL, config, gi, pushes, gateway,
                   cliVars, mergeVars>>

ScrapeProjectCount_RetryOnError ==
    /\ pc = "ProjectCount"
    /\ Len(calls) < 2 * (MaxGroups + 1)
    /\ LET group == config.Groups[gi] IN
        /\ group.ProjectCount # <<>>
        /\ \E resp \in Responses :
            /\ calls' = Append(calls, [gi |-> gi, request |-> ListGroupProjects(group),
                                       response |-> resp])
            /\ IF resp.err
               THEN UNCHANGED <<batch, pc, exited, exitCode, diagnostic>>
               ELSE /\ batch' = Append(batch, ProjectCountGauge(group, resp.TotalItems))
                    /\ pc' = "MemberCount"
                    /\ UNCHANGED <<exited, exitCode, diagnostic>>
    /\ UNCHANGED <<accessToken, pushGatewayURL, config, gi, pushes, gateway,
                   cliVars, mergeVars>>

\* if group.ProjectCount != nil { getProjectCount; NewGauge; pusher.Collector }
ScrapeProjectCount ==
    /\ pc = "ProjectCount"
    /\ LET group == config.Groups[gi] IN
        /\ group.ProjectCount # <<>>
        /\ \E resp \in Responses :
            /\ calls' = Append(calls, [gi |-> gi, request |-> ListGroupProjects(group),
                                       response |-> resp])
            /\ IF resp.err
               THEN /\ Exit1("Failed to list projects")
                    /\ UNCHANGED batch
               ELSE /\ batch' = Append(batch, ProjectCountGauge(group, resp.TotalItems))
                    /\ pc' = "MemberCount"
                    /\ UNCHANGED <<exited, exitCode, diagnostic>>
    /\ UNCHANGED <<accessToken, pushGatewayURL, config, gi, pushes, gateway,
                   cliVars, mergeVars>>

SkipProjectCount ==
    /\ pc = "ProjectCount"
    /\ config.Groups[gi].ProjectCount = <<>>
    /\ pc' = "MemberCount"
    /\ UNCHANGED <<accessToken, pushGatewayURL, config, gi, calls, batch, pushes,
                   gateway, exited, exitCode, diagnostic, cliVars, mergeVars>>

\* mutant of ScrapeMemberCount: the guard tests the other field
ScrapeMemberCount_ChecksProjectCount ==
    /\ pc = "MemberCount"
    /\ LET group == config.Groups[gi] IN
        /\ group.ProjectCount # <<>>
        /\ \E resp \in Responses :
            /\ calls' = Append(calls, [gi |-> gi, request |-> ListGroupMembers(group),
                                       response |-> resp])
            /\ IF resp.err
               THEN /\ Exit1("Failed to list members")
                    /\ UNCHANGED <<batch, gi>>
               ELSE /\ batch' = Append(batch, MemberCountGauge(group, resp.TotalItems))
                    /\ gi' = gi + 1
                    /\ pc' = LoopAt(gi + 1)
                    /\ UNCHANGED <<exited, exitCode, diagnostic>>
    /\ UNCHANGED <<accessToken, pushGatewayURL, config, pushes, gateway,
                   cliVars, mergeVars>>

\* if group.MemberCount != nil { getGroupMembersCount; NewGauge; pusher.Collector }
ScrapeMemberCount ==
    /\ pc = "MemberCount"
    /\ LET group == config.Groups[gi] IN
        /\ group.MemberCount # <<>>
        /\ \E resp \in Responses :
            /\ calls' = Append(calls, [gi |-> gi, request |-> ListGroupMembers(group),
                                       response |-> resp])
            /\ IF resp.err
               THEN /\ Exit1("Failed to list members")
                    /\ UNCHANGED <<batch, gi>>
               ELSE /\ batch' = Append(batch, MemberCountGauge(group, resp.TotalItems))
                    /\ gi' = gi + 1
                    /\ pc' = LoopAt(gi + 1)
                    /\ UNCHANGED <<exited, exitCode, diagnostic>>
    /\ UNCHANGED <<accessToken, pushGatewayURL, config, pushes, gateway,
                   cliVars, mergeVars>>

SkipMemberCount ==
    /\ pc = "MemberCount"
    /\ config.Groups[gi].MemberCount = <<>>
    /\ gi' = gi + 1
    /\ pc' = LoopAt(gi + 1)
    /\ UNCHANGED <<accessToken, pushGatewayURL, config, calls, batch, pushes,
                   gateway, exited, exitCode, diagnostic, cliVars, mergeVars>>

\* mutants of Push: a failed push is reported but the run still ends with
\* status 0; a failed push is tried again
Push_ExitZeroOnError ==
    /\ pc = "Push"
    /\ pushes' = Append(pushes, batch)
    /\ \E err \in BOOLEAN :
        /\ gateway' = IF err THEN gateway ELSE batch
        /\ diagnostic' = IF err THEN "Failed to push metrics to Push Gateway"
                         ELSE diagnostic
        /\ exited' = TRUE
        /\ exitCode' = 0
        /\ pc' = "exited"
    /\ UNCHANGED <<accessToken, pushGatewayURL, config, gi, calls, batch,
                   cliVars, mergeVars>>

Push_RetryOnError ==
    /\ pc = "Push"
    /\ Len(pushes) < 2
    /\ pushes' = Append(pushes, batch)
    /\ \E err \in BOOLEAN :
        IF err
        THEN UNCHANGED <<gateway, pc, exited, exitCode, diagnostic>>
        ELSE /\ gateway' = batch
             /\ exited' = TRUE
             /\ exitCode' = 0
             /\ pc' = "exited"
             /\ UNCHANGED diagnostic
    /\ UNCHANGED <<accessToken, pushGatewayURL, config, gi, calls, batch,
                   cliVars, mergeVars>>

\* pusher.Push(): one request carrying every registered gauge; on success
\* scrape and Run return and the process ends with status 0
Push ==
    /\ pc = "Push"
    /\ pushes' = Append(pushes, batch)
    /\ \E err \in BOOLEAN :
        IF err
        THEN /\ Exit1("Failed to push metrics to Push Gateway")
             /\ UNCHANGED gateway
        ELSE /\ gateway' = batch
             /\ exited' = TRUE
             /\ exitCode' = 0
             /\ pc' = "exited"
             /\ UNCHANGED diagnostic
    /\ UNCHANGED <<accessToken, pushGatewayURL, config, gi, calls, batch,
                   cliVars, mergeVars>>

\* a direct call of mergeLabels(labelSets...)
MergeLabelsCall ==
    /\ pc = "mergeLabels"
    /\ merged' = mergeLabels(labelSets)
    /\ pc' = "merged"
    /\ UNCHANGED <<accessToken, pushGatewayURL, config, gi, calls, batch, pushes,
                   gateway, exited, exitCode, diagnostic, cliVars, labelSets>>

----------------------------------------------------------------------------
(* Specifications *)

NoRunYet ==
    /\ gi = 1
    /\ calls = <<>>
    /\ batch = <<>>
    /\ pushes = <<>>
    /\ gateway = <<>>
    /\ exited = FALSE
    /\ exitCode = 0
    /\ diagnostic = ""

\* the process as cobra hands it to scrapeCmd.Run
Init ==
    /\ flagAccessToken \in {"", "flag-token"}
    /\ flagPushGatewayURL \in {"", "flag-url"}
    /\ envAccessToken \in {"", "env-token"}
    /\ envPushGatewayURL \in {"", "env-url"}
    /\ fileAccessToken \in {"", "file-token"}
    /\ filePushGatewayURL \in {"", "file-url"}
    /\ accessToken = ""
    /\ pushGatewayURL = ""
    /\ config = ZeroConfig
    /\ pc = "ReadInConfig"
    /\ NoRunYet
    /\ labelSets = <<>>
    /\ merged = EmptyLabels

\* entry of scrape(&config, accessToken, pushGatewayURL)
InitScrape ==
    /\ flagAccessToken = ""
    /\ flagPushGatewayURL = ""
    /\ envAccessToken = "env-token"
    /\ envPushGatewayURL = "env-url"
    /\ fileAccessToken = ""
    /\ filePushGatewayURL = ""
    /\ accessToken = "env-token"
    /\ pushGatewayURL = "env-url"
    /\ config \in Configs(MaxGroups)
    /\ pc = "NewClient"
    /\ NoRunYet
    /\ labelSets = <<>>
    /\ merged = EmptyLabels

\* entry of mergeLabels(labelSets...)
InitMerge ==
    /\ flagAccessToken = ""
    /\ flagPushGatewayURL = ""
    /\ envAccessToken = ""
    /\ envPushGatewayURL = ""
    /\ fileAccessToken = ""
    /\ filePushGatewayURL = ""
    /\ accessToken = ""
    /\ pushGatewayURL = ""
    /\ config = ZeroConfig
    /\ pc = "mergeLabels"
    /\ NoRunYet
    /\ labelSets \in UNION {[1..n -> LabelsOver({"a", "b"})] : n \in 0..MaxSets}
    /\ merged = EmptyLabels

InitLabels == InitScrape \/ InitMerge

NextScrape ==
    \/ NewClient
    \/ ScrapeProjectCount
    \/ SkipProjectCount
    \/ ScrapeMemberCount
    \/ SkipMemberCount
    \/ Push

Next ==
    \/ ReadInConfig
    \/ getAccessToken
    \/ getPushGatewayURL
    \/ Unmarshal
    \/ NextScrape

NextLabels == NextScrape \/ MergeLabelsCall

Spec == Init /\ [][Next]_vars

SpecScrape == InitScrape /\ [][NextScrape]_vars

SpecLabels == InitLabels /\ [][NextLabels]_vars

----------------------------------------------------------------------------
(* What the configuration asks for, stated independently of the run *)

\* the enabled (group, metric kind) pairs of a group list from index i on,
\* in configuration order, project count before member count
RECURSIVE PairsFrom(_, _)
PairsFrom(groups, i) ==
    IF i > Len(groups) THEN <<>>
    ELSE (IF groups[i].ProjectCount # <<>>
          THEN <<[gi |-> i, kind |-> "projects"]>> ELSE <<>>)
         \o (IF groups[i].MemberCount # <<>>
             THEN <<[gi |-> i, kind |-> "members"]>> ELSE <<>>)
         \o PairsFrom(groups, i + 1)

EnabledPairs == PairsFrom(config.Groups, 1)

MetricName(kind) ==
    IF kind = "projects" THEN "gitlab_group_project_count"
    ELSE "gitlab_group_members_count"

\* DefaultLabels merged with {group_id: ID}, written out key by key
ExpectedLabels(group) ==
    [k \in (DOMAIN config.DefaultLabels) \cup {"group_id"} |->
        IF k = "group_id" THEN group.ID ELSE config.DefaultLabels[k]]

\* call i is the request of enabled pair i
CallMatchesPair(i) ==
    /\ calls[i].gi = EnabledPairs[i].gi
    /\ calls[i].request.kind = EnabledPairs[i].kind
    /\ calls[i].request.gid = config.Groups[EnabledPairs[i].gi].ID

CallsOf(g, kind) ==
    {i \in 1..Len(calls) : calls[i].gi = g /\ calls[i].request.kind = kind}

SamplesOf(g, kind) ==
    {i \in 1..Len(batch) :
        /\ batch[i].Name = MetricName(kind)
        /\ batch[i].ConstLabels["group_id"] = config.Groups[g].ID}

FailedCalls == {i \in 1..Len(calls) : calls[i].response.err}

\* every enabled collector of every group was invoked once, in order, and succeeded
AllCollected ==
    /\ Len(calls) = Len(EnabledPairs)
    /\ \A i \in 1..Len(calls) : CallMatchesPair(i) /\ ~calls[i].response.err

EarlyDiagnostics ==
    {"Failed to read config file", "Please provide an access token",
     "Please provide a Push Gateway URL", "Failed to unmarshal config"}

----------------------------------------------------------------------------
(* Claims *)

\* C1: a failed collector call is the last platform request of the run: the
\* process has exited with status 1, no later collector (of that group or of
\* a later one) was invoked, Push was never invoked and nothing reached the
\* gateway.
C1_FatalShortCircuit ==
    \A i \in FailedCalls :
        /\ i = Len(calls)
        /\ exited /\ exitCode = 1
        /\ pushes = <<>>
        /\ gateway = <<>>
        /\ \A j \in 1..Len(calls) : calls[j].gi <= calls[i].gi

\* C1 witness: the first group's project-count call succeeded, its
\* member-count call failed, and the second group still had both collectors
\* enabled.
C1_Witness ==
    /\ Len(config.Groups) = 2
    /\ config.Groups[2].ProjectCount # <<>>
    /\ config.Groups[2].MemberCount # <<>>
    /\ Len(calls) = 2
    /\ calls[2].gi = 1
    /\ calls[2].response.err
    /\ batch # <<>>
    /\ exited

\* C3: a collector is invoked, and a sample emitted, only for a MetricSpec
\* field that is present; once a group has been processed, a group with
\* neither field has no call and no sample, and a group with only
\* member_count has exactly one sample, the member-count one, and no
\* project-count call.
C3_SelectiveCollection ==
    \A g \in 1..Len(config.Groups) :
        LET group == config.Groups[g] IN
        /\ group.ProjectCount = <<>> =>
              CallsOf(g, "projects") = {} /\ SamplesOf(g, "projects") = {}
        /\ group.MemberCount = <<>> =>
              CallsOf(g, "members") = {} /\ SamplesOf(g, "members") = {}
        /\ (gi > g /\ group.ProjectCount = <<>> /\ group.MemberCount # <<>>) =>
              /\ Cardinality(SamplesOf(g, "members")) = 1
              /\ Cardinality(CallsOf(g, "members")) = 1
              /\ \A i \in 1..Len(batch) :
                    batch[i].ConstLabels["group_id"] = group.ID =>
                        batch[i].Name = "gitlab_group_members_count"

\* C3 witness: a run pushed after processing a group with neither field and
\* a group with only member_count.
C3_Witness ==
    /\ Len(config.Groups) >= 2
    /\ config.Groups[1].ProjectCount = <<>> /\ config.Groups[1].MemberCount = <<>>
    /\ config.Groups[2].ProjectCount = <<>> /\ config.Groups[2].MemberCount # <<>>
    /\ gi > 2
    /\ Len(batch) >= 1
    /\ batch[1].Name = "gitlab_group_members_count"

\* the batch claim C4 expects, from the configuration and the reported totals
ExpectedBatch ==
    [i \in 1..Len(EnabledPairs) |->
        [Name |-> MetricName(EnabledPairs[i].kind),
         ConstLabels |-> ExpectedLabels(config.Groups[EnabledPairs[i].gi]),
         Value |-> calls[i].response.TotalItems]]

\* C4: when every enabled collector has succeeded, the batch registered with
\* the pusher, and every batch handed to Push, is exactly one sample per
\* enabled (group, kind) pair in configuration order, project count before
\* member count, each with its kind's name, the total the platform reported
\* and DefaultLabels merged with {group_id: ID}.
C4_AllSuccessBatch ==
    (pc = "Push" \/ pushes # <<>>) =>
        /\ AllCollected
        /\ batch = ExpectedBatch
        /\ \A n \in 1..Len(pushes) : pushes[n] = ExpectedBatch
        /\ (exited /\ exitCode = 0) => gateway = ExpectedBatch

\* C4 witness: the end-to-end example of the spec's shape: group 1 with
\* project_count only, group 2 with both, three samples accepted.
C4_Witness ==
    /\ exited /\ exitCode = 0
    /\ Len(config.Groups) = 2
    /\ config.Groups[1].MemberCount = <<>>
    /\ Len(gateway) = 3
    /\ gateway[1].Name = "gitlab_group_project_count"
    /\ gateway[3].Name = "gitlab_group_members_count"
    /\ gateway[1].Value # gateway[2].Value
    /\ "team" \in DOMAIN gateway[1].ConstLabels

\* the last index of labelSets whose set defines key k
LastWith(k) ==
    CHOOSE i \in 1..Len(labelSets) :
        /\ k \in DOMAIN labelSets[i]
        /\ \A j \in (i + 1)..Len(labelSets) : k \notin DOMAIN labelSets[j]

\* C5: mergeLabels returns the union of the inputs' keys, each key with the
\* value of the latest input defining it; empty inputs change nothing; and
\* every registered sample's labels are DefaultLabels overridden by the
\* sample's own group_id.
C5_LabelPrecedence ==
    /\ pc = "merged" =>
        /\ DOMAIN merged = UNION {DOMAIN labelSets[i] : i \in 1..Len(labelSets)}
        /\ \A k \in DOMAIN merged : merged[k] = labelSets[LastWith(k)][k]
        /\ merged = mergeLabels(SelectSeq(labelSets, LAMBDA l : DOMAIN l # {}))
    /\ \A i \in 1..Len(batch) :
        LET group == config.Groups[calls[i].gi] IN
        /\ batch[i].ConstLabels["group_id"] = group.ID
        /\ DOMAIN batch[i].ConstLabels = (DOMAIN config.DefaultLabels) \cup {"group_id"}
        /\ \A k \in (DOMAIN config.DefaultLabels) \ {"group_id"} :
              batch[i].ConstLabels[k] = config.DefaultLabels[k]

\* C5 witness: DefaultLabels defines group_id and team, and a sample of
\* group 2 carries its own group_id and the default team.
C5_Witness ==
    /\ DOMAIN config.DefaultLabels = {"team", "group_id"}
    /\ config.DefaultLabels["group_id"] # "G2"
    /\ Len(batch) >= 2
    /\ batch[Len(batch)].ConstLabels["group_id"] = "G2"
    /\ batch[Len(batch)].ConstLabels["team"] = "dflt"

\* the state part of C7: at most one push, only after the loop has passed
\* every group; a failed push leaves status 1 and nothing accepted
C7_PushStateInv ==
    /\ Len(pushes) <= 1
    /\ pushes # <<>> =>
        /\ exited
        /\ gi = Len(config.Groups) + 1
        /\ AllCollected
        /\ (diagnostic = "Failed to push metrics to Push Gateway") =>
              exitCode = 1 /\ gateway = <<>>
        /\ exitCode = 1 <=> diagnostic = "Failed to push metrics to Push Gateway"

\* C7: Push is invoked at most once, only after every group has been
\* processed; once it has been invoked no collector and no further push
\* follows; a failed push ends the run with status 1 and nothing accepted.
C7_PushIsTerminal ==
    /\ []C7_PushStateInv
    /\ [][pushes # <<>> => UNCHANGED <<calls, batch, pushes, gateway>>]_vars

\* C7 witness: a push failed after two groups were collected.
C7_Witness ==
    /\ Len(pushes) = 1
    /\ Len(pushes[1]) >= 2
    /\ Len(config.Groups) >= 2
    /\ exited /\ exitCode = 1
    /\ gateway = <<>>

StubTotal(inc) == IF inc THEN 25 ELSE 10

\* C9: every project-count request carries include_subgroups = true exactly
\* when the option is explicitly true, false when it is absent or false;
\* against a platform answering 10 for false and 25 for true, the sample is
\* 10 for an absent (or false) option and 25 for an explicit true.
C9_SubGroupToggle ==
    \A i \in 1..Len(calls) :
        calls[i].request.kind = "projects" =>
            LET opt == config.Groups[calls[i].gi].ProjectCount[1].IncludeSubGroups
                req == calls[i].request
                resp == calls[i].response
            IN /\ req.include_subgroups = (opt = <<TRUE>>)
               /\ (~resp.err /\ resp.TotalItems = StubTotal(req.include_subgroups)) =>
                     batch[i].Value = IF opt = <<TRUE>> THEN 25 ELSE 10

\* C9 witness: group 1 with the option absent got 10, group 2 with explicit
\* true got 25.
C9_Witness ==
    /\ Len(config.Groups) >= 2
    /\ config.Groups[1].ProjectCount = <<[IncludeSubGroups |-> <<>>]>>
    /\ config.Groups[1].MemberCount = <<>>
    /\ config.Groups[2].ProjectCount = <<[IncludeSubGroups |-> <<TRUE>>]>>
    /\ Len(batch) >= 2
    /\ calls[1].request.include_subgroups = FALSE /\ batch[1].Value = 10
    /\ calls[2].request.include_subgroups = TRUE /\ batch[2].Value = 25

\* the enabled pairs the loop has passed when it stands at group g, statement at
PairsPassed(g, at) ==
    {i \in 1..Len(EnabledPairs) :
        \/ EnabledPairs[i].gi < g
        \/ EnabledPairs[i].gi = g /\ EnabledPairs[i].kind = "projects"
                                  /\ at = "MemberCount"}

\* C10: every collector invocation is one request for page 1 with page size
\* 1; request i is the request of the i-th enabled pair, so no pair is asked
\* twice and a failed request is never re-issued; a successful call yields the
\* reported total; the number of requests is the number of enabled pairs
\* reached, and in a successful run the number of enabled pairs.
C10_OneCallPerCollector ==
    /\ Len(calls) <= Len(EnabledPairs)
    /\ \A i \in 1..Len(calls) :
        /\ CallMatchesPair(i)
        /\ calls[i].request.page = 1
        /\ calls[i].request.per_page = 1
        /\ calls[i].response.err => i = Len(calls) /\ Len(batch) = i - 1
        /\ ~calls[i].response.err => batch[i].Value = calls[i].response.TotalItems
    /\ pc \in {"ProjectCount", "MemberCount", "Push"} =>
        Len(calls) = Cardinality(PairsPassed(gi, pc))
    /\ (exited /\ exitCode = 0) => Len(calls) = Len(EnabledPairs)

\* C10 witness: a request failed after an earlier one succeeded, with
\* enabled pairs left unasked.
C10_Witness ==
    /\ Len(calls) = 2
    /\ ~calls[1].response.err
    /\ calls[2].response.err
    /\ Len(EnabledPairs) > 2
    /\ exited

\* C2: a run that ends with status 0 has invoked every enabled collector of
\* every group successfully and its push has succeeded; a config read
\* failure, a mapping failure, a missing token or URL, a collector failure
\* and a push failure each end the run with status 1.
C2_ExitZeroOnlyOnFullSuccess ==
    /\ (exited /\ exitCode = 0) =>
        /\ AllCollected
        /\ Len(pushes) = 1
        /\ gateway = pushes[1]
        /\ Len(gateway) = Len(EnabledPairs)
        /\ diagnostic = ""
        /\ accessToken # "" /\ pushGatewayURL # ""
    /\ diagnostic # "" => exited /\ exitCode = 1
    /\ FailedCalls # {} => exited /\ exitCode = 1
    /\ (pushes # <<>> /\ Len(gateway) # Len(batch)) => exited /\ exitCode = 1
    /\ (pc \notin {"ReadInConfig", "getAccessToken"} /\ accessToken = "") =>
          exited /\ exitCode = 1
    /\ (pc \notin {"ReadInConfig", "getAccessToken", "getPushGatewayURL"}
            /\ pushGatewayURL = "") => exited /\ exitCode = 1
    /\ exited => exitCode \in {0, 1}

\* C2 witness: a run from the command line ended with status 0 after both
\* collectors of its group succeeded.
C2_Witness ==
    /\ exited /\ exitCode = 0
    /\ flagAccessToken = "" /\ envAccessToken # ""
    /\ Len(config.Groups) = 1
    /\ Len(gateway) = 2

\* C6: a run that failed on reading the config, on the access token, on the
\* gateway URL or on mapping the config has exited with status 1 without any
\* platform request and without any push; requests and pushes happen only
\* with a token, a URL and a mapped config in hand.
C6_ConfigErrorsBeforeNetwork ==
    /\ diagnostic \in EarlyDiagnostics =>
        /\ exited /\ exitCode = 1
        /\ calls = <<>> /\ pushes = <<>> /\ gateway = <<>>
    /\ (calls # <<>> \/ pushes # <<>>) =>
        /\ accessToken # "" /\ pushGatewayURL # ""
        /\ pc \notin {"ReadInConfig", "getAccessToken", "getPushGatewayURL",
                      "Unmarshal", "NewClient"}
    /\ pc \in {"ReadInConfig", "getAccessToken", "getPushGatewayURL", "Unmarshal"} =>
        calls = <<>> /\ pushes = <<>>

\* C6 witness: the run stopped on a missing access token.
C6_Witness ==
    /\ exited /\ exitCode = 1
    /\ diagnostic = "Please provide an access token"
    /\ envAccessToken = "" /\ fileAccessToken = ""
    /\ calls = <<>> /\ pushes = <<>>

\* the run has passed both getRequiredValue calls or stopped in one of them
CredentialsResolved ==
    \/ pc \in {"Unmarshal", "NewClient", "ProjectCount", "MemberCount", "Push"}
    \/ exited /\ diagnostic # "Failed to read config file"

\* C8: a value given with --token or --pushgateway is the one the run uses;
\* without the flag the environment variable is used; an empty result ends
\* the run with status 1.
C8_FlagOverridesEnv ==
    CredentialsResolved =>
        /\ flagAccessToken # "" => accessToken = flagAccessToken
        /\ (flagAccessToken = "" /\ envAccessToken # "") => accessToken = envAccessToken
        /\ (diagnostic # "Please provide an access token" /\ flagPushGatewayURL # "") =>
              pushGatewayURL = flagPushGatewayURL
        /\ (accessToken = "" \/ pushGatewayURL = "") => exited /\ exitCode = 1

====
